---- MODULE Spec2Model ----
(***************************************************************************)
(* TTLCache of app/core/cache.py: a bounded key/value store with TTL       *)
(* expiration and LRU eviction, with its statistics counters.              *)
(*                                                                         *)
(* _cache (an OrderedDict) is a sequence of [key, value] records, oldest   *)
(* first; _timestamps (a dict) is a function on the keys it holds.         *)
(* time.time() is the integer clock `now`.                                 *)
(*                                                                         *)
(* Spec follows one TTLCache through its operations.  SpecWrap follows one *)
(* of the two module caches (_frame_cache, _range_cache) through the       *)
(* cache_frame / cache_range wrappers of decorated functions.  SpecKey     *)
(* follows a TTLCache under keys of every type _make_key accepts.  SpecLut *)
(* follows make_colormap_lut and apply_lut of app/processing/image.py.     *)
(***************************************************************************)
EXTENDS Integers, Sequences, FiniteSets, TLC

VARIABLES
    max_size,       \* self.max_size
    ttl_seconds,    \* self.ttl_seconds
    cache,          \* self._cache, in OrderedDict order (least recently used first)
    timestamps,     \* self._timestamps
    hits,           \* self._hits
    misses,         \* self._misses
    evictions,      \* self._evictions
    expirations,    \* self._expirations
    now,            \* the reading of time.time()
    last,           \* the most recent call: its name, arguments, time, the size it
                    \* found and its return value; n is the number of entries a
                    \* cleanup_expired removed, the age of the entry a set evicted
    stats_ret,      \* what the most recent stats() returned (<<>> before any call)
    nops,           \* history: the number of calls made so far
    ngets,          \* history: the number of get calls made so far
    lastUse,        \* history: per key, the index of its most recent successful get or
                    \* set among the calls, and which of the two it was
    sinceClear,     \* history: TRUE from a clear() until the next set()
    kind,           \* the decorator the run follows: "frame" for cache_frame on
                    \* _frame_cache, "range" for cache_range on _range_cache
    sig,            \* the parameter names of the decorated functions
    deco,           \* per decorated function, the ttl_seconds it was decorated with
                    \* (0 before its decoration)
    co,             \* per coroutine, its position in the wrapper and its call
    origin,         \* history: per cache key, the call that stored its entry
    epoch,          \* history: the number of clear_all_caches() calls so far
    log,            \* history: the wrapped calls that have returned, in order
    raw,            \* history: the key given to the most recent get or set of a run
                    \* over keys of every type, before _make_key
    lut,            \* the array lut of make_colormap_lut, index -> <<r, g, b>>
    lut_pc,         \* the range and channel make_colormap_lut fills next
    rgb,            \* what the most recent apply_lut returned, per pixel
    proc,           \* the most recent call of process_row_to_png and its outcome
    ingest,         \* process_chunk_to_frames: the chunk, the rows done, the frames
                    \* so far and whether the call is running, returned or raised
    admin_token,    \* settings.admin_token
    db_frames,      \* the rows of the table frames: depth -> image_png
    caches,         \* the keys held by _frame_cache and by _range_cache
    resp,           \* the most recent request of a route and its response
    pager,          \* history: a client that pages through GET /frames from offset
                    \* 0 by limit: what it asked, what it got, and whether the
                    \* table changed meanwhile
    nreq            \* history: the number of requests answered so far

cacheVars == <<max_size, ttl_seconds, cache, timestamps, hits, misses, evictions,
               expirations, now, last, stats_ret, nops, ngets, lastUse, sinceClear>>

wrapVars == <<kind, sig, deco, co, origin, epoch, log, raw>>

lutVars == <<lut, lut_pc, rgb, proc, ingest>>

apiVars == <<admin_token, db_frames, caches, resp, pager, nreq>>

vars == <<cacheVars, wrapVars, lutVars, apiVars>>

----------------------------------------------------------------------------
(* Bounds of the model. *)

\* the largest max_size a cache is constructed with
MaxSize == 2
\* the ttl_seconds a cache is constructed with
Ttl == 1
\* the clock runs from 0 to MaxTime
MaxTime == 2
\* the number of calls in a run
MaxOps == 4

----------------------------------------------------------------------------
(* Keys and values. *)

\* Python's None
None == "None"

\* the values callers store; set(key, None) is a legal call (value: Any)
Values == {"v1", None}

StrKey(s) == [t |-> "str", s |-> s, i |-> 0]
IntKey(i) == [t |-> "int", s |-> "", i |-> i]

\* the keys callers pass: strings and an integer
RawKeys == {StrKey("a"), StrKey("b"), StrKey("c"), IntKey(1)}

\* the other keys _make_key accepts (key: Any): True and False, which are ints
\* to isinstance; tuples and lists, with their items in order; dicts, with
\* their <<name, value>> items in insertion order
BoolKey(b) == [t |-> "bool", s |-> "", i |-> IF b THEN 1 ELSE 0]
TupleKey(items) == [t |-> "tuple", items |-> items]
ListKey(items) == [t |-> "list", items |-> items]
DictKey(items) == [t |-> "dict", items |-> items]

\* the names of dict items, in the order of sort_keys=True
FieldOrder == <<"a", "b", "p">>

\* str(key) of an int or a bool
PyStr(key) ==
    IF key.t = "bool" THEN (IF key.i = 1 THEN "True" ELSE "False") ELSE ToString(key.i)

RECURSIVE JsonDumps(_)
RECURSIVE JsonItems(_)
RECURSIVE JsonFields(_, _)
RECURSIVE JsonFieldsInOrder(_, _)

\* the items of a JSON array, separated by ", "
JsonItems(items) ==
    IF Len(items) = 0 THEN ""
    ELSE IF Len(items) = 1 THEN JsonDumps(items[1])
    ELSE JsonDumps(items[1]) \o ", " \o JsonItems(Tail(items))

\* the value of the item named n of a dict
ItemOf(items, n) == items[CHOOSE j \in 1..Len(items) : items[j][1] = n][2]

\* the members of a JSON object in the insertion order of the items
JsonFieldsInOrder(items, names) ==
    IF Len(items) = 0 THEN ""
    ELSE "\"" \o items[1][1] \o "\": " \o JsonDumps(items[1][2])
             \o (IF Len(items) = 1 THEN "" ELSE ", " \o JsonFieldsInOrder(Tail(items), names))

\* the members of a JSON object for the names, in their order, separated by ", "
JsonFields(items, names) ==
    IF Len(names) = 0 THEN ""
    ELSE "\"" \o names[1] \o "\": " \o JsonDumps(ItemOf(items, names[1]))
             \o (IF Len(names) = 1 THEN "" ELSE ", " \o JsonFields(items, Tail(names)))

\* json.dumps(key, sort_keys=True, default=str)
JsonDumps(key) ==
    CASE key.t = "str" -> "\"" \o key.s \o "\""
      [] key.t = "int" -> ToString(key.i)
      [] key.t = "bool" -> (IF key.i = 1 THEN "true" ELSE "false")
      [] key.t = "none" -> "null"
      [] key.t \in {"tuple", "list"} -> "[" \o JsonItems(key.items) \o "]"
      [] key.t = "dict" ->
            "{" \o JsonFields(key.items,
                              SelectSeq(FieldOrder,
                                        LAMBDA n : \E j \in 1..Len(key.items) :
                                                      key.items[j][1] = n))
                \o "}"

\* hashlib.md5(...).hexdigest(), taken as free of collisions
Md5(key_str) == "md5(" \o key_str \o ")"

\* _make_key: a str is its own key, an int or float is str(key), any other key
\* is the hash of its JSON text
MakeKey(key) ==
    IF key.t = "str" THEN key.s
    ELSE IF key.t \in {"int", "bool"} THEN PyStr(key)
    ELSE Md5(JsonDumps(key))

CacheKeys == {MakeKey(key) : key \in RawKeys}

----------------------------------------------------------------------------
(* OrderedDict and dict operations. *)

\* the keys of an OrderedDict
KeysOf(c) == {c[i].key : i \in 1..Len(c)}

\* cache_key in self._cache
HasKey(c, k) == k \in KeysOf(c)

\* self._cache[cache_key]
Lookup(c, k) == c[CHOOSE i \in 1..Len(c) : c[i].key = k].value

\* del self._cache[cache_key]
Remove(c, k) == SelectSeq(c, LAMBDA e : e.key # k)

\* set() without its "remove it first"
KeptInPlace(c, k) == c

\* if cache_key in self._cache: del self._cache[cache_key]
Dropped(c, k) == IF HasKey(c, k) THEN Remove(c, k) ELSE c

\* self._cache[cache_key] = value: a new key goes to the end, a key already
\* there keeps its place and gets the value
Insert(c, k, v) ==
    IF HasKey(c, k)
    THEN [i \in 1..Len(c) |-> IF c[i].key = k THEN [key |-> k, value |-> v] ELSE c[i]]
    ELSE Append(c, [key |-> k, value |-> v])

\* get() without its move to the end
NotMoved(c, k) == c

\* self._cache.move_to_end(cache_key)
MoveToEnd(c, k) == Append(Remove(c, k), [key |-> k, value |-> Lookup(c, k)])

\* an eviction that takes an entry older than ttl_seconds when there is one
ExpiredFirst(c) ==
    LET old == {i \in 1..Len(c) : c[i].key \in DOMAIN timestamps
                                     /\ now - timestamps[c[i].key] > ttl_seconds}
    IN IF old = {} THEN c[1].key ELSE c[CHOOSE i \in old : TRUE].key

\* next(iter(self._cache))
Oldest(c) == c[1].key

\* an empty dict
EmptyDict == [k \in {} |-> 0]

\* self._timestamps[cache_key] = t
DictSet(d, k, t) == [x \in DOMAIN d \cup {k} |-> IF x = k THEN t ELSE d[x]]

\* del self._timestamps[cache_key]
DictDel(d, k) == [x \in DOMAIN d \ {k} |-> d[x]]

\* self._timestamps.get(cache_key, 0)
TsGet(d, k) == IF k \in DOMAIN d THEN d[k] ELSE 0

----------------------------------------------------------------------------
(* The conditions of get, set and cleanup_expired. *)

\* the comparison with >= for >
IsExpiredAtTtl(ts, t, ttl) == t - ts >= ttl

\* the comparison against a ttl one second longer
IsExpiredLate(ts, t, ttl) == t - ts > ttl + 1

\* time.time() - timestamp > self.ttl_seconds
IsExpired(ts, t, ttl) == t - ts > ttl

\* the comparison against a max_size one entry larger
OverCapacityByTwo(c, m) == Len(c) > m + 1

\* len(self._cache) > self.max_size
OverCapacity(c, m) == Len(c) > m

----------------------------------------------------------------------------
(* stats(): the hit rate. Percentages are kept in hundredths, so that       *)
(* round(x, 2) is an integer: 33.33 is 3333.                                *)

\* round(n / d) for n >= 0, d > 0, ties to the even neighbour as Python's round
RoundHalfEven(n, d) ==
    LET q == n \div d
        r == n % d
    IN  IF 2 * r < d THEN q
        ELSE IF 2 * r > d THEN q + 1
        ELSE IF q % 2 = 0 THEN q ELSE q + 1

\* the hit rate cut to two decimals instead of rounded
HitRateTruncated(h, total) ==
    IF total > 0 THEN (10000 * h) \div total ELSE 0

\* round(hit_rate, 2) with hit_rate = h / total * 100 if total > 0 else 0.0
HitRatePercent(h, total) ==
    IF total > 0 THEN RoundHalfEven(10000 * h, total) ELSE 0

\* the dict stats() returns
StatsDict ==
    [size |-> Len(cache),
     max_size |-> max_size,
     ttl_seconds |-> ttl_seconds,
     hits |-> hits,
     misses |-> misses,
     evictions |-> evictions,
     expirations |-> expirations,
     total_requests |-> hits + misses,
     hit_rate_percent |-> HitRatePercent(hits, hits + misses)]

----------------------------------------------------------------------------
(* No decorated function and no colormap table: the state of the variables *)
(* of the wrappers and of the table in a run that follows the cache alone. *)

WrapIdle ==
    /\ kind = "none"
    /\ sig = <<>>
    /\ deco = <<>>
    /\ co = <<>>
    /\ origin = <<>>
    /\ epoch = 0
    /\ log = <<>>
    /\ raw = <<>>

LutIdle ==
    /\ lut = <<>>
    /\ lut_pc = <<>>
    /\ rgb = <<>>
    /\ proc = <<>>
    /\ ingest = <<>>

ApiIdle ==
    /\ admin_token = ""
    /\ db_frames = <<>>
    /\ caches = <<>>
    /\ resp = <<>>
    /\ pager = <<>>
    /\ nreq = 0

----------------------------------------------------------------------------
(* The state after construction. *)

Call(op, k, v, r, n) ==
    [op |-> op, key |-> k, value |-> v, t |-> now, size |-> Len(cache), ret |-> r, n |-> n]

Init ==
    /\ max_size \in 0..MaxSize
    /\ ttl_seconds = Ttl
    /\ cache = <<>>
    /\ timestamps = EmptyDict
    /\ hits = 0
    /\ misses = 0
    /\ evictions = 0
    /\ expirations = 0
    /\ now = 0
    /\ last = [op |-> "init", key |-> "", value |-> None, t |-> 0, size |-> 0,
               ret |-> None, n |-> 0]
    /\ stats_ret = <<>>
    /\ nops = 0
    /\ ngets = 0
    /\ lastUse = [k \in CacheKeys |-> [at |-> 0, by |-> "none"]]
    /\ sinceClear = FALSE
    /\ WrapIdle
    /\ LutIdle
    /\ ApiIdle

----------------------------------------------------------------------------
(* The operations. *)

\* get()'s expired branch without its count of the expiration
ExpireEntryUncounted(cache_key) ==
    /\ cache' = Remove(cache, cache_key)
    /\ timestamps' = DictDel(timestamps, cache_key)
    /\ misses' = misses + 1
    /\ last' = Call("get", cache_key, None, None, 0)
    /\ UNCHANGED <<hits, expirations, lastUse>>

\* get()'s expired branch without its count of the miss
ExpireEntryNoMiss(cache_key) ==
    /\ cache' = Remove(cache, cache_key)
    /\ timestamps' = DictDel(timestamps, cache_key)
    /\ expirations' = expirations + 1
    /\ last' = Call("get", cache_key, None, None, 0)
    /\ UNCHANGED <<hits, misses, lastUse>>

\* get(), the entry is expired: remove it, count an expiration and a miss, return None
ExpireEntry(cache_key) ==
    /\ cache' = Remove(cache, cache_key)
    /\ timestamps' = DictDel(timestamps, cache_key)
    /\ expirations' = expirations + 1
    /\ misses' = misses + 1
    /\ last' = Call("get", cache_key, None, None, 0)
    /\ UNCHANGED <<hits, lastUse>>

\* a get whose hit also restarts the age of the entry
GetSliding(key) ==
    LET cache_key == MakeKey(key) IN
    /\ nops < MaxOps
    /\ IF ~HasKey(cache, cache_key)
       THEN /\ misses' = misses + 1
            /\ last' = Call("get", cache_key, None, None, 0)
            /\ UNCHANGED <<cache, timestamps, hits, expirations, lastUse>>
       ELSE IF IsExpired(TsGet(timestamps, cache_key), now, ttl_seconds)
       THEN ExpireEntry(cache_key)
       ELSE /\ cache' = MoveToEnd(cache, cache_key)
            /\ timestamps' = DictSet(timestamps, cache_key, now)
            /\ hits' = hits + 1
            /\ last' = Call("get", cache_key, None, Lookup(cache, cache_key), 0)
            /\ lastUse' = [lastUse EXCEPT ![cache_key] = [at |-> nops + 1, by |-> "get"]]
            /\ UNCHANGED <<misses, expirations>>
    /\ nops' = nops + 1
    /\ ngets' = ngets + 1
    /\ UNCHANGED <<max_size, ttl_seconds, evictions, now, stats_ret, sinceClear>>

\* TTLCache.get(key)
Get(key) ==
    LET cache_key == MakeKey(key) IN
    /\ nops < MaxOps
    /\ IF ~HasKey(cache, cache_key)
       THEN /\ misses' = misses + 1
            /\ last' = Call("get", cache_key, None, None, 0)
            /\ UNCHANGED <<cache, timestamps, hits, expirations, lastUse>>
       ELSE IF IsExpired(TsGet(timestamps, cache_key), now, ttl_seconds)
       THEN ExpireEntry(cache_key)
       ELSE /\ cache' = MoveToEnd(cache, cache_key)
            /\ hits' = hits + 1
            /\ last' = Call("get", cache_key, None, Lookup(cache, cache_key), 0)
            /\ lastUse' = [lastUse EXCEPT ![cache_key] = [at |-> nops + 1, by |-> "get"]]
            /\ UNCHANGED <<timestamps, misses, expirations>>
    /\ nops' = nops + 1
    /\ ngets' = ngets + 1
    /\ UNCHANGED <<max_size, ttl_seconds, evictions, now, stats_ret, sinceClear>>

\* TTLCache.set(key, value)
Set(key, value) ==
    LET cache_key == MakeKey(key)
        removed == Dropped(cache, cache_key)
        added == Insert(removed, cache_key, value)
        stamped == DictSet(timestamps, cache_key, now)
    IN
    /\ nops < MaxOps
    /\ IF OverCapacity(added, max_size)
       THEN LET oldest_key == Oldest(added) IN
            /\ cache' = Remove(added, oldest_key)
            /\ timestamps' = DictDel(stamped, oldest_key)
            /\ evictions' = evictions + 1
            /\ last' = Call("set", cache_key, value, None, now - stamped[oldest_key])
       ELSE /\ cache' = added
            /\ timestamps' = stamped
            /\ UNCHANGED evictions
            /\ last' = Call("set", cache_key, value, None, 0)
    /\ nops' = nops + 1
    /\ lastUse' = [lastUse EXCEPT ![cache_key] = [at |-> nops + 1, by |-> "set"]]
    /\ sinceClear' = FALSE
    /\ UNCHANGED <<max_size, ttl_seconds, hits, misses, expirations, now, stats_ret, ngets>>

\* clear() that also resets the counters
ClearAndReset ==
    /\ nops < MaxOps
    /\ cache' = <<>>
    /\ timestamps' = EmptyDict
    /\ hits' = 0
    /\ misses' = 0
    /\ evictions' = 0
    /\ expirations' = 0
    /\ last' = Call("clear", "", None, None, 0)
    /\ nops' = nops + 1
    /\ sinceClear' = TRUE
    /\ UNCHANGED <<max_size, ttl_seconds, now, stats_ret, ngets, lastUse>>

\* TTLCache.clear()
Clear ==
    /\ nops < MaxOps
    /\ cache' = <<>>
    /\ timestamps' = EmptyDict
    /\ last' = Call("clear", "", None, None, 0)
    /\ nops' = nops + 1
    /\ sinceClear' = TRUE
    /\ UNCHANGED <<max_size, ttl_seconds, hits, misses, evictions, expirations, now,
                   stats_ret, ngets, lastUse>>

\* TTLCache.stats()
Stats ==
    /\ nops < MaxOps
    /\ stats_ret' = <<StatsDict>>
    /\ last' = Call("stats", "", None, None, 0)
    /\ nops' = nops + 1
    /\ UNCHANGED <<max_size, ttl_seconds, cache, timestamps, hits, misses, evictions,
                   expirations, now, ngets, lastUse, sinceClear>>

\* TTLCache.cleanup_expired()
CleanupExpired ==
    LET expired_keys == {k \in DOMAIN timestamps : IsExpired(timestamps[k], now, ttl_seconds)}
    IN
    /\ nops < MaxOps
    /\ cache' = SelectSeq(cache, LAMBDA e : e.key \notin expired_keys)
    /\ timestamps' = [k \in DOMAIN timestamps \ expired_keys |-> timestamps[k]]
    /\ expirations' = expirations + Cardinality(expired_keys)
    /\ last' = Call("cleanup_expired", "", None, None, Cardinality(expired_keys))
    /\ nops' = nops + 1
    /\ UNCHANGED <<max_size, ttl_seconds, hits, misses, evictions, now, stats_ret,
                   ngets, lastUse, sinceClear>>

\* the clock of time.time() advances between calls
Tick ==
    /\ now < MaxTime
    /\ now' = now + 1
    /\ UNCHANGED <<max_size, ttl_seconds, cache, timestamps, hits, misses, evictions,
                   expirations, last, stats_ret, nops, ngets, lastUse, sinceClear>>

Next ==
    \/ \E key \in RawKeys : Get(key) /\ UNCHANGED <<wrapVars, lutVars, apiVars>>
    \/ \E key \in RawKeys, value \in Values :
          Set(key, value) /\ UNCHANGED <<wrapVars, lutVars, apiVars>>
    \/ Clear /\ UNCHANGED <<wrapVars, lutVars, apiVars>>
    \/ Stats /\ UNCHANGED <<wrapVars, lutVars, apiVars>>
    \/ CleanupExpired /\ UNCHANGED <<wrapVars, lutVars, apiVars>>
    \/ Tick /\ UNCHANGED <<wrapVars, lutVars, apiVars>>

Spec == Init /\ [][Next]_vars

----------------------------------------------------------------------------
(* _cache and _timestamps hold the same keys, each once. *)

CacheTimestampsInSync ==
    /\ DOMAIN timestamps = KeysOf(cache)
    /\ Cardinality(KeysOf(cache)) = Len(cache)
    /\ \A k \in DOMAIN timestamps : timestamps[k] <= now

----------------------------------------------------------------------------
(* Which call a step is: every call counts in nops, Tick does not.          *)

GetStep == nops' = nops + 1 /\ last'.op = "get"
SetStep == nops' = nops + 1 /\ last'.op = "set"
ClearStep == nops' = nops + 1 /\ last'.op = "clear"
StatsStep == nops' = nops + 1 /\ last'.op = "stats"
CleanupStep == nops' = nops + 1 /\ last'.op = "cleanup_expired"

\* the entry of key k is stored and its age is above ttl_seconds
Stale(k) == k \in KeysOf(cache) /\ now - timestamps[k] > ttl_seconds

\* the entry of key k is stored and its age is not above ttl_seconds
Fresh(k) == k \in KeysOf(cache) /\ now - timestamps[k] <= ttl_seconds

\* the entries of c other than key k, in order
Others(c, k) == SelectSeq(c, LAMBDA e : e.key # k)

----------------------------------------------------------------------------
(* C1: after every operation the number of stored entries is at most       *)
(* max_size, for every max_size >= 0.                                      *)
SizeWithinMaxSize == Len(cache) <= max_size

\* a full cache that has evicted
SizeWithinMaxSize_Witness ==
    /\ max_size = MaxSize
    /\ Len(cache) = max_size
    /\ evictions = 1
    /\ last.op = "set"

(* C2: a set of a key not stored that pushes the cache above max_size      *)
(* removes exactly one entry and adds 1 to evictions, and the entry removed *)
(* is the one whose most recent successful get or set is oldest.           *)
EvictsLeastRecentlyUsed ==
    [][(SetStep /\ last'.key \notin KeysOf(cache) /\ Len(cache) + 1 > max_size)
        => LET candidates == KeysOf(cache) \cup {last'.key} IN
           /\ evictions' = evictions + 1
           /\ Len(cache') = Len(cache)
           /\ \E victim \in candidates :
                /\ KeysOf(cache') = candidates \ {victim}
                /\ \A k \in candidates : lastUse'[victim].at <= lastUse'[k].at]_vars

\* set(a); set(b); get(a); set(c) on a cache of max_size 2 has removed b
EvictsLeastRecentlyUsed_Witness ==
    /\ max_size = 2
    /\ evictions = 1
    /\ last.op = "set"
    /\ last.size = 2
    /\ \E a, b, c \in CacheKeys :
         /\ KeysOf(cache) = {a, c}
         /\ b \notin KeysOf(cache)
         /\ lastUse[b] = [at |-> 2, by |-> "set"]
         /\ lastUse[a] = [at |-> 3, by |-> "get"]
         /\ lastUse[c] = [at |-> 4, by |-> "set"]

(* C3: a get returns a value only from an entry that is stored and whose   *)
(* age is not above ttl_seconds.                                           *)
GetNeverReturnsExpired ==
    [][(GetStep /\ (last'.ret # None \/ hits' # hits))
        => /\ last'.key \in KeysOf(cache)
           /\ now - timestamps[last'.key] <= ttl_seconds]_vars

\* a get that returned a value from an entry as old as ttl_seconds allows
GetNeverReturnsExpired_Witness ==
    /\ last.op = "get"
    /\ last.ret # None
    /\ last.key \in DOMAIN timestamps
    /\ last.t - timestamps[last.key] = ttl_seconds

(* C4: with max_size >= 1, a get(k) that follows set(k, v) with no call in *)
(* between and an age not above ttl_seconds returns v, adds 1 to hits and  *)
(* leaves misses unchanged.                                                *)
SetThenGetReturnsValue ==
    [][(GetStep /\ last.op = "set" /\ last'.key = last.key /\ max_size >= 1
            /\ now - last.t <= ttl_seconds)
        => /\ last'.ret = last.value
           /\ hits' = hits + 1
           /\ misses' = misses]_vars

\* set(k, None); set(k, "v1"); the clock advances; get(k) has returned "v1"
SetThenGetReturnsValue_Witness ==
    /\ last.op = "get"
    /\ nops = 3
    /\ hits = 1
    /\ misses = 0
    /\ evictions = 0
    /\ last.ret = "v1"
    /\ last.size = 1
    /\ lastUse[last.key] = [at |-> 3, by |-> "get"]
    /\ \A k \in CacheKeys \ {last.key} : lastUse[k].at = 0
    /\ last.t - timestamps[last.key] = ttl_seconds

(* C5: a get of a key whose entry is stored but older than ttl_seconds     *)
(* removes the entry, adds 1 to misses and to expirations, leaves hits and *)
(* evictions unchanged and returns None.                                   *)
GetOfExpiredRemovesIt ==
    [][(GetStep /\ Stale(last'.key))
        => /\ cache' = Others(cache, last'.key)
           /\ Len(cache') = Len(cache) - 1
           /\ DOMAIN timestamps' = DOMAIN timestamps \ {last'.key}
           /\ misses' = misses + 1
           /\ expirations' = expirations + 1
           /\ hits' = hits
           /\ evictions' = evictions
           /\ last'.ret = None]_vars

\* set(a); the clock advances by 2; set(b); get(a) has found a expired
GetOfExpiredRemovesIt_Witness ==
    /\ last.op = "get"
    /\ nops = 3
    /\ last.size = 2
    /\ expirations = 1
    /\ misses = 1
    /\ Len(cache) = 1
    /\ last.key \notin KeysOf(cache)

(* C6, as stated: every get adds 1 to exactly one of hits and misses, to   *)
(* hits if and only if it returns a value (not None); no other operation   *)
(* changes hits or misses; hits + misses is the number of gets; a get of   *)
(* an absent key changes nothing but misses.                               *)
HitIffValueReturned ==
    [][/\ GetStep => /\ \/ hits' = hits + 1 /\ misses' = misses
                        \/ hits' = hits /\ misses' = misses + 1
                     /\ hits' = hits + 1 <=> last'.ret # None
       /\ (SetStep \/ ClearStep \/ StatsStep \/ CleanupStep)
            => hits' = hits /\ misses' = misses
       /\ hits' + misses' = ngets'
       /\ (GetStep /\ last'.key \notin KeysOf(cache))
            => /\ misses' = misses + 1
               /\ UNCHANGED <<cache, timestamps, hits, evictions, expirations,
                              max_size, ttl_seconds>>]_vars

(* C6, amended: every get adds 1 to exactly one of hits and misses, to     *)
(* hits if and only if the key is stored and not expired, and it then      *)
(* returns the stored value, which is None when None was stored; it        *)
(* returns None on a miss. The rest as stated.                             *)
HitIffStoredAndFresh ==
    [][/\ GetStep => /\ \/ hits' = hits + 1 /\ misses' = misses
                        \/ hits' = hits /\ misses' = misses + 1
                     /\ hits' = hits + 1 <=> Fresh(last'.key)
                     /\ Fresh(last'.key)
                          => \E i \in 1..Len(cache) :
                               /\ cache[i].key = last'.key
                               /\ last'.ret = cache[i].value
                     /\ ~Fresh(last'.key) => last'.ret = None
       /\ (SetStep \/ ClearStep \/ StatsStep \/ CleanupStep)
            => hits' = hits /\ misses' = misses
       /\ hits' + misses' = ngets'
       /\ StatsStep => stats_ret'[1].total_requests = ngets
       /\ (GetStep /\ last'.key \notin KeysOf(cache))
            => /\ misses' = misses + 1
               /\ UNCHANGED <<cache, timestamps, hits, evictions, expirations,
                              max_size, ttl_seconds>>]_vars

\* a get has missed an absent key, then a get has hit an entry that stores None
HitIffStoredAndFresh_Witness ==
    /\ last.op = "get"
    /\ last.ret = None
    /\ hits = 1
    /\ misses = 1
    /\ ngets = 2
    /\ expirations = 0
    /\ lastUse[last.key] = [at |-> nops, by |-> "get"]

SetOfStoredKeyReplaces ==
    [][(SetStep /\ last'.key \in KeysOf(cache))
        => /\ Len(cache') = Len(cache)
           /\ cache'[Len(cache')] = [key |-> last'.key, value |-> last'.value]
           /\ Others(cache', last'.key) = Others(cache, last'.key)
           /\ timestamps'[last'.key] = now
           /\ \A k \in DOMAIN timestamps \ {last'.key} :
                k \in DOMAIN timestamps' /\ timestamps'[k] = timestamps[k]
           /\ DOMAIN timestamps' = DOMAIN timestamps
           /\ evictions' = evictions]_vars

\* set(a); set(b); the clock advances; set(a) in the full cache
SetOfStoredKeyReplaces_Witness ==
    /\ last.op = "set"
    /\ nops = 3
    /\ max_size = 2
    /\ last.size = 2
    /\ Len(cache) = 2
    /\ evictions = 0
    /\ cache[2].key = last.key
    /\ timestamps[cache[2].key] > timestamps[cache[1].key]
    /\ lastUse[cache[1].key] = [at |-> 2, by |-> "set"]

(* C9: clear() removes every entry, so that every get misses until the next *)
(* set, and leaves hits, misses, evictions, expirations, max_size and      *)
(* ttl_seconds unchanged.                                                  *)
ClearEmptiesAndKeepsCounters ==
    [][/\ ClearStep => /\ Len(cache') = 0
                       /\ DOMAIN timestamps' = {}
                       /\ UNCHANGED <<hits, misses, evictions, expirations,
                                      max_size, ttl_seconds>>
       /\ (GetStep /\ sinceClear)
            => /\ last'.ret = None
               /\ misses' = misses + 1
               /\ hits' = hits]_vars

\* a key that had been hit before a clear misses after it
ClearEmptiesAndKeepsCounters_Witness ==
    /\ last.op = "get"
    /\ sinceClear
    /\ hits = 1
    /\ misses = 1
    /\ nops = 4
    /\ lastUse[last.key] = [at |-> 2, by |-> "get"]

(* C10: cleanup_expired() removes exactly the entries older than           *)
(* ttl_seconds, returns their number and adds it to expirations; the fresh *)
(* entries keep their values, timestamps and order; hits, misses and       *)
(* evictions are unchanged.                                                *)
CleanupRemovesExactlyExpired ==
    [][CleanupStep
        => LET stale == {k \in KeysOf(cache) : now - timestamps[k] > ttl_seconds} IN
           /\ cache' = SelectSeq(cache, LAMBDA e : e.key \notin stale)
           /\ DOMAIN timestamps' = DOMAIN timestamps \ stale
           /\ \A k \in DOMAIN timestamps' : timestamps'[k] = timestamps[k]
           /\ last'.n = Cardinality(stale)
           /\ expirations' = expirations + Cardinality(stale)
           /\ UNCHANGED <<hits, misses, evictions>>]_vars

\* a cleanup has removed one entry and kept one exactly ttl_seconds old
CleanupRemovesExactlyExpired_Witness ==
    /\ last.op = "cleanup_expired"
    /\ last.n = 1
    /\ last.size = 2
    /\ expirations = 1
    /\ Len(cache) = 1
    /\ now - timestamps[cache[1].key] = ttl_seconds

----------------------------------------------------------------------------
(* The memoize decorators cache_frame and cache_range.                     *)
(*                                                                         *)
(* A run follows one decorator and its module cache.  The decorated        *)
(* functions are f and g, of one signature; under cache_frame f is a       *)
(* coroutine function (async_wrapper) and g a plain one (sync_wrapper);    *)
(* cache_range wraps both with its async wrapper.  An argument is a record *)
(* [t, s, i] like a raw key.  A call is positional arguments (a sequence)  *)
(* and keyword arguments (a set of <<name, value>> pairs).                 *)

\* the ttl_seconds default of both decorators and of both module caches
DefaultTtl == 60
\* max_size of _frame_cache
FrameMaxSize == 1000
\* max_size of _range_cache
RangeMaxSize == 100
\* the default of limit
DefaultLimit == 100

\* the seconds between two readings of the clock
TickSeconds == 45
\* the number of times the clock advances in a run of the wrappers
MaxWrapTicks == 1
\* the number of wrapped calls of a run
MaxCalls == 2
\* the number of clear_all_caches() calls of a run
MaxClears == 1

Funcs == {"f", "g"}
Procs == {1, 2}
Results == {"v1", None}
DecoTtls == {30, DefaultTtl, 90}

NoneArg == [t |-> "none", s |-> "", i |-> 0]
Session == [t |-> "obj", s |-> "session", i |-> 0]

\* str(v) inside an f-string
Str(v) ==
    CASE v.t = "int" -> ToString(v.i)
      [] v.t = "str" -> v.s
      [] v.t = "none" -> "None"
      [] OTHER -> "<" \o v.s \o ">"

FrameSigs == {<<"depth">>, <<"session", "depth">>, <<"session", "key">>}
RangeSigs == {<<"session", "depth_min", "depth_max", "limit", "offset">>,
              <<"depth_min", "depth_max", "limit", "offset">>}

Depths == {1, 2}
DepthMaxes == {9}
Limits == {50}
Offsets == {0, 50}

\* cache_frame: the last parameter is given by position ("pos") or by keyword ("kw")
FrameShapes == [style : {"pos", "kw"}, d : Depths]
\* cache_range: depth_min and depth_max by position or by keyword, limit by
\* keyword, offset by keyword when it is not the default
RangeShapes == [style : {"pos", "kw"}, d : Depths, dmax : DepthMaxes, limit : Limits,
                offset : Offsets]

\* the arguments bound to the parameters before the last (sessions), by position
Lead(n) == [i \in 1..n |-> Session]

KwHas(kwargs, name) == \E kv \in kwargs : kv[1] = name
KwGet(kwargs, name) == (CHOOSE kv \in kwargs : kv[1] = name)[2]
\* kwargs.get(name, default)
KwGetOr(kwargs, name, default) ==
    IF KwHas(kwargs, name) THEN KwGet(kwargs, name) ELSE default

\* the call f(*args, **kwargs) of a shape, for the signature sg
FrameCall(sg, shape) ==
    IF shape.style = "pos"
    THEN [args |-> Append(Lead(Len(sg) - 1), IntKey(shape.d)), kwargs |-> {}]
    ELSE [args |-> Lead(Len(sg) - 1), kwargs |-> {<<sg[Len(sg)], IntKey(shape.d)>>}]

RangeCall(sg, shape) ==
    LET page == {<<"limit", IntKey(shape.limit)>>} \cup
                (IF shape.offset = 0 THEN {} ELSE {<<"offset", IntKey(shape.offset)>>})
    IN
    IF shape.style = "pos"
    THEN [args |-> Lead(Len(sg) - 4) \o <<IntKey(shape.d), IntKey(shape.dmax)>>,
          kwargs |-> page]
    ELSE [args |-> Lead(Len(sg) - 4),
          kwargs |-> page \cup {<<"depth_min", IntKey(shape.d)>>,
                                <<"depth_max", IntKey(shape.dmax)>>}]

\* the parameters the function receives, as Python binds them: by keyword,
\* else by position, else the default of the signature
Bind(sg, call, name, default) ==
    IF KwHas(call.kwargs, name) THEN KwGet(call.kwargs, name)
    ELSE IF \E i \in 1..Len(call.args) : sg[i] = name
         THEN call.args[CHOOSE i \in 1..Len(call.args) : sg[i] = name]
         ELSE default

\* the values a call gives the parameters its result depends on
ParamsOf(knd, sg, call) ==
    IF knd = "frame"
    THEN <<Bind(sg, call, sg[Len(sg)], NoneArg)>>
    ELSE <<Bind(sg, call, "depth_min", NoneArg), Bind(sg, call, "depth_max", NoneArg),
           Bind(sg, call, "limit", IntKey(DefaultLimit)), Bind(sg, call, "offset", IntKey(0))>>

\* the index of the parameter named name in the signature, from 0; -1 when absent
ParamIndex(sg, name) ==
    IF \E i \in 1..Len(sg) : sg[i] = name
    THEN (CHOOSE i \in 1..Len(sg) : sg[i] = name) - 1
    ELSE -1

\* args[i] if len(args) > i else default
ArgOr(args, i, default) == IF Len(args) > i THEN args[i + 1] ELSE default

\* the key of a call the wrapper does not cache
NoKey == ""

\* async_wrapper of cache_frame: the depth of the call, None when not found
DepthAsync(sg, call) ==
    IF KwHas(call.kwargs, "depth") THEN KwGet(call.kwargs, "depth")
    ELSE IF Len(call.args) >= 1
         THEN LET depth_idx == ParamIndex(sg, "depth") IN
              IF depth_idx >= 0 /\ depth_idx < Len(call.args)
              THEN call.args[depth_idx + 1]
              ELSE NoneArg
         ELSE NoneArg

\* async_wrapper of cache_frame: the cache key of the call
FrameAsyncKey(sg, call) ==
    LET depth == DepthAsync(sg, call) IN
    IF depth = NoneArg THEN NoKey ELSE "frame:" \o Str(depth)

\* sync_wrapper of cache_frame: the cache key of the call
FrameSyncKey(sg, call) ==
    IF Len(call.args) >= 2 THEN "frame:" \o Str(call.args[2])
    ELSE IF KwHas(call.kwargs, "depth") THEN "frame:" \o Str(KwGet(call.kwargs, "depth"))
    ELSE NoKey

\* async_wrapper of cache_range: the cache key of the call
RangeKey(sg, call) ==
    LET depth_min == KwGetOr(call.kwargs, "depth_min", ArgOr(call.args, 1, NoneArg))
        depth_max == KwGetOr(call.kwargs, "depth_max", ArgOr(call.args, 2, NoneArg))
        limit == KwGetOr(call.kwargs, "limit", ArgOr(call.args, 3, IntKey(DefaultLimit)))
        offset == KwGetOr(call.kwargs, "offset", ArgOr(call.args, 4, IntKey(0)))
    IN "range:" \o Str(depth_min) \o ":" \o Str(depth_max) \o ":" \o Str(limit)
                \o ":" \o Str(offset)

\* the call gives a depth by keyword, or by position to a parameter named depth;
\* a cache_range call always has the four range parameters
Named(knd, sg, call) ==
    \/ knd = "range"
    \/ KwHas(call.kwargs, "depth")
    \/ \E i \in 1..Len(call.args) : sg[i] = "depth"

\* under cache_frame g is a plain function, wrapped by sync_wrapper
IsSync(knd, fn) == knd = "frame" /\ fn = "g"

Sigs(knd) == IF knd = "frame" THEN FrameSigs ELSE RangeSigs
Shapes(knd) == IF knd = "frame" THEN FrameShapes ELSE RangeShapes
CallOf(knd, sg, shape) ==
    IF knd = "frame" THEN FrameCall(sg, shape) ELSE RangeCall(sg, shape)

\* the cache key the wrapper of fn derives for a call
KeyOf(knd, sg, fn, call) ==
    IF knd = "range" THEN RangeKey(sg, call)
    ELSE IF IsSync(knd, fn) THEN FrameSyncKey(sg, call)
    ELSE FrameAsyncKey(sg, call)

\* every cache key a wrapper of the run can derive
WrapKeys(knd) ==
    {KeyOf(knd, sg, fn, CallOf(knd, sg, shape)) :
        sg \in Sigs(knd), fn \in Funcs, shape \in Shapes(knd)} \ {NoKey}

\* a wrapper that takes no cached value for a hit
NeverHit(cached_result) == FALSE

\* `if cached_result is not None`
IsHit(cached_result) == cached_result # None

\* cache_frame: `if result is not None` before the set
FrameStores(result) == result # None

\* cache_range: the set is unconditional
RangeStores(result) == TRUE

NoOrigin == [fn |-> "", params |-> <<>>, epoch |-> 0, at |-> 0, ttl |-> 0]
IdleCo == [pc |-> "idle", fn |-> "", params |-> <<>>, key |-> NoKey, epoch |-> 0,
           solo |-> TRUE, named |-> FALSE, call |-> [args |-> <<>>, kwargs |-> {}]]

\* the wrapped calls started so far
NCalls == Len(log) + Cardinality({p \in Procs : co[p].pc # "idle"})

\* no plain function is running: a plain call runs to its end before anything else
NoSync == \A p \in Procs : co[p].pc # "sync"

\* the record of a returned call in the history
Returned(c, src, ret, from, stored) ==
    [fn |-> c.fn, params |-> c.params, key |-> c.key, epoch |-> c.epoch, solo |-> c.solo,
     named |-> c.named, call |-> c.call,
     src |-> src, ret |-> ret, from |-> from, stored |-> stored]

\* coroutine p becomes c; the calls in flight are no longer alone
Overlap(p, c) ==
    [q \in Procs |-> IF q = p THEN c
                     ELSE IF co[q].pc = "idle" THEN co[q]
                     ELSE [co[q] EXCEPT !.solo = FALSE]]

\* a wrapper up to the call of the wrapped function: derive the key, look it up,
\* return the cached value or go on to call the function
WrapLookup(p, fn, call, cache_key) ==
    LET me == [pc |-> IF IsSync(kind, fn) THEN "sync" ELSE "await", fn |-> fn,
               params |-> ParamsOf(kind, sig, call), key |-> cache_key, epoch |-> epoch,
               solo |-> \A q \in Procs \ {p} : co[q].pc = "idle",
               named |-> Named(kind, sig, call), call |-> call]
    IN
    /\ deco[fn] # 0
    /\ co[p].pc = "idle"
    /\ \A q \in Procs : q < p => co[q].pc # "idle"
    /\ NoSync
    /\ NCalls < MaxCalls
    /\ IF cache_key = NoKey
       THEN /\ co' = Overlap(p, me)
            /\ UNCHANGED <<cacheVars, log>>
       ELSE /\ Get(StrKey(cache_key))
            /\ IF IsHit(last'.ret)
               THEN /\ log' = Append(log, Returned(me, "cache", last'.ret,
                                                   origin[cache_key], FALSE))
                    /\ co' = Overlap(p, IdleCo)
               ELSE /\ co' = Overlap(p, me)
                    /\ UNCHANGED log
    /\ UNCHANGED <<kind, sig, deco, origin, epoch, raw, lutVars, apiVars>>

\* a wrapper from the return of the wrapped function: store the result if the
\* wrapper stores it, return it
WrapStore(p, result, stores) ==
    LET c == co[p] IN
    /\ IF c.key # NoKey /\ stores
       THEN /\ Set(StrKey(c.key), result)
            /\ origin' = [origin EXCEPT ![c.key] =
                             [fn |-> c.fn, params |-> c.params, epoch |-> c.epoch,
                              at |-> now, ttl |-> deco[c.fn]]]
       ELSE UNCHANGED <<cacheVars, origin>>
    /\ log' = Append(log, Returned(c, IF c.key = NoKey THEN "bypass" ELSE "func", result,
                                   NoOrigin, c.key # NoKey /\ stores))
    /\ co' = [co EXCEPT ![p] = IdleCo]
    /\ UNCHANGED <<kind, sig, deco, epoch, raw, lutVars, apiVars>>

\* cache_frame(ttl_seconds) / cache_range(ttl_seconds) applied to fn
Decorate(fn, ttl) ==
    /\ kind \in {"frame", "range"}
    /\ deco[fn] = 0
    /\ NoSync
    /\ deco' = [deco EXCEPT ![fn] = ttl]
    /\ ttl_seconds' = IF ttl # DefaultTtl THEN ttl ELSE ttl_seconds
    /\ UNCHANGED <<max_size, cache, timestamps, hits, misses, evictions, expirations, now,
                   last, stats_ret, nops, ngets, lastUse, sinceClear>>
    /\ UNCHANGED <<kind, sig, co, origin, epoch, log, raw, lutVars, apiVars>>

\* async_wrapper of cache_frame, to `await func(...)` or to the return of a hit
FrameAsyncEnter(p, shape) ==
    /\ kind = "frame"
    /\ LET call == FrameCall(sig, shape) IN
       WrapLookup(p, "f", call, FrameAsyncKey(sig, call))

\* async_wrapper of cache_frame, from the return of the awaited function
FrameAsyncResume(p, result) ==
    /\ kind = "frame"
    /\ co[p].pc = "await"
    /\ NoSync
    /\ WrapStore(p, result, FrameStores(result))

\* sync_wrapper of cache_frame, to `func(...)` or to the return of a hit
FrameSyncEnter(p, shape) ==
    /\ kind = "frame"
    /\ LET call == FrameCall(sig, shape) IN
       WrapLookup(p, "g", call, FrameSyncKey(sig, call))

\* sync_wrapper of cache_frame, from the return of the function
FrameSyncFinish(p, result) ==
    /\ kind = "frame"
    /\ co[p].pc = "sync"
    /\ WrapStore(p, result, FrameStores(result))

\* async_wrapper of cache_range, to `await func(...)` or to the return of a hit
RangeEnter(p, fn, shape) ==
    /\ kind = "range"
    /\ LET call == RangeCall(sig, shape) IN
       WrapLookup(p, fn, call, RangeKey(sig, call))

\* async_wrapper of cache_range, from the return of the awaited function
RangeResume(p, result) ==
    /\ kind = "range"
    /\ co[p].pc = "await"
    /\ WrapStore(p, result, RangeStores(result))

\* clear_all_caches(), on the cache the run follows
ClearAll ==
    /\ kind \in {"frame", "range"}
    /\ NoSync
    /\ epoch < MaxClears
    /\ Clear
    /\ epoch' = epoch + 1
    /\ UNCHANGED <<kind, sig, deco, co, origin, log, raw, lutVars, apiVars>>

\* the clock of time.time() advances, also while functions run
WrapTick ==
    /\ kind \in {"frame", "range"}
    /\ now < MaxWrapTicks * TickSeconds
    /\ now' = now + TickSeconds
    /\ UNCHANGED <<max_size, ttl_seconds, cache, timestamps, hits, misses, evictions,
                   expirations, last, stats_ret, nops, ngets, lastUse, sinceClear>>
    /\ UNCHANGED <<wrapVars, lutVars, apiVars>>

\* the module after import and the decoration of f: the module cache with the
\* ttl_seconds the decoration left it
InitWrap ==
    /\ kind \in {"frame", "range"}
    /\ sig \in Sigs(kind)
    /\ max_size = (IF kind = "frame" THEN FrameMaxSize ELSE RangeMaxSize)
    /\ deco \in {d \in [Funcs -> DecoTtls \cup {0}] : d["f"] # 0 /\ d["g"] = 0}
    /\ ttl_seconds = (IF deco["f"] # DefaultTtl THEN deco["f"] ELSE DefaultTtl)
    /\ cache = <<>>
    /\ timestamps = EmptyDict
    /\ hits = 0
    /\ misses = 0
    /\ evictions = 0
    /\ expirations = 0
    /\ now = 0
    /\ last = [op |-> "init", key |-> "", value |-> None, t |-> 0, size |-> 0,
               ret |-> None, n |-> 0]
    /\ stats_ret = <<>>
    /\ nops = 0
    /\ ngets = 0
    /\ lastUse = [k \in WrapKeys(kind) |-> [at |-> 0, by |-> "none"]]
    /\ sinceClear = FALSE
    /\ co = [p \in Procs |-> IdleCo]
    /\ origin = [k \in WrapKeys(kind) |-> NoOrigin]
    /\ epoch = 0
    /\ log = <<>>
    /\ raw = <<>>
    /\ LutIdle
    /\ ApiIdle

NextWrap ==
    \/ \E fn \in Funcs, ttl \in DecoTtls : Decorate(fn, ttl)
    \/ \E p \in Procs, shape \in FrameShapes : FrameAsyncEnter(p, shape)
    \/ \E p \in Procs, result \in Results : FrameAsyncResume(p, result)
    \/ \E p \in Procs, shape \in FrameShapes : FrameSyncEnter(p, shape)
    \/ \E p \in Procs, result \in Results : FrameSyncFinish(p, result)
    \/ \E p \in Procs, fn \in Funcs, shape \in RangeShapes : RangeEnter(p, fn, shape)
    \/ \E p \in Procs, result \in Results : RangeResume(p, result)
    \/ ClearAll
    \/ WrapTick

SpecWrap == InitWrap /\ [][NextWrap]_vars

----------------------------------------------------------------------------
(* Which step of a wrapper a step is: a wrapped call returns when the       *)
(* history of returned calls grows.                                         *)

ReturnStep == Len(log') = Len(log) + 1
Ret == log'[Len(log')]
\* the call returned what the wrapped function returned, after a cache lookup
FuncReturnStep == ReturnStep /\ Ret.src = "func"
\* the call returned the cached value
CacheReturnStep == ReturnStep /\ Ret.src = "cache"
\* the call returned what the wrapped function returned, without the cache
BypassReturnStep == ReturnStep /\ Ret.src = "bypass"

----------------------------------------------------------------------------
(* C11: under both decorators, a wrapped call whose function returned None  *)
(* stores nothing: the entries and the size of the cache are as before the  *)
(* return, nothing is evicted, and no call is answered None from the cache  *)
(* (the next call invokes the function again).                              *)

NoneResultNotStored ==
    [][/\ (FuncReturnStep /\ Ret.ret = None) =>
              /\ cache' = cache
              /\ timestamps' = timestamps
              /\ evictions' = evictions
       /\ CacheReturnStep => Ret.ret # None]_vars

----------------------------------------------------------------------------
(* C12: a wrapper looks the key up before it calls the wrapped function: a  *)
(* call that finds a fresh entry holding a value returns that value and     *)
(* does not invoke the function, and the function is invoked only when      *)
(* there is no such entry.  So when n calls of one key have run one after   *)
(* the other, with results other than None, no expiration, no eviction and  *)
(* no clear, the function was invoked once, hits = n - 1 and misses = 1.    *)

\* the calls so far were of one cached key, one after the other, every one
\* returned a value, and nothing expired, was evicted or was cleared
SequentialSameKey ==
    /\ Len(log) >= 1
    /\ \A p \in Procs : co[p].pc = "idle"
    /\ \A i \in 1..Len(log) :
          /\ log[i].key = log[1].key
          /\ log[i].key # NoKey
          /\ log[i].solo
          /\ log[i].ret # None
    /\ epoch = 0
    /\ evictions = 0
    /\ expirations = 0

InvokedOnce ==
    SequentialSameKey =>
        /\ Cardinality({i \in 1..Len(log) : log[i].src = "func"}) = 1
        /\ hits = Len(log) - 1
        /\ misses = 1

----------------------------------------------------------------------------
(* C13: an entry stored through a function decorated with ttl_seconds = T   *)
(* is served from the cache only up to the age T, and while it is stored    *)
(* and younger than T a lookup of its key returns it, whatever the other    *)
(* decorations were.                                                        *)

ServedForDecoratedTtl ==
    [][/\ CacheReturnStep => now - Ret.from.at <= Ret.from.ttl
       /\ \A k \in KeysOf(cache) :
              (GetStep /\ last'.key = k /\ now - origin[k].at < origin[k].ttl) =>
                  last'.ret = Lookup(cache, k)]_vars

----------------------------------------------------------------------------
(* C14: under cache_range a call is answered from the cache only with the   *)
(* result of a call of the same depth_min, depth_max, limit and offset, and *)
(* two calls have the same cache key exactly when the four are the same,    *)
(* by position or by keyword.                                               *)

RangeKeyIsTheFourParams ==
    [][kind = "range" =>
          /\ CacheReturnStep => Ret.from.params = Ret.params
          /\ \A i, j \in 1..Len(log') :
                 (log'[i].params = log'[j].params) <=> (log'[i].key = log'[j].key)]_vars

----------------------------------------------------------------------------
(* C15: under cache_frame a call that gives no depth, neither by keyword    *)
(* nor by position to a parameter named depth, goes to the function without *)
(* the cache: the wrapper derives no key, the entries and the hit and miss  *)
(* counters are as before, and the call returns what the function returned. *)

NoDepthBypassesCache ==
    [][kind = "frame" =>
          /\ \A p \in Procs :
                 (co[p].pc = "idle" /\ co'[p].pc # "idle" /\ ~co'[p].named) =>
                     /\ co'[p].key = NoKey
                     /\ UNCHANGED <<cache, timestamps, hits, misses>>
          /\ (ReturnStep /\ ~Ret.named) =>
                 /\ Ret.src = "bypass"
                 /\ UNCHANGED <<cache, timestamps, hits, misses>>]_vars

----------------------------------------------------------------------------
(* C18: cache operations are single steps and a wrapper gives way to other  *)
(* coroutines only between its lookup and the return of the awaited         *)
(* function, so in every interleaving of wrapped coroutines the cache holds *)
(* at most max_size entries, _cache and _timestamps hold the same keys,     *)
(* each once, and hits + misses is the number of lookups the wrappers made. *)

\* the lookups of the wrappers: one per call that derived a key
WrapLookups ==
    Cardinality({i \in 1..Len(log) : log[i].key # NoKey})
        + Cardinality({p \in Procs : co[p].pc # "idle" /\ co[p].key # NoKey})

----------------------------------------------------------------------------
(* C19: a call answered from the cache is answered with the result of an    *)
(* invocation that started after the latest clear_all_caches(), also when   *)
(* calls were suspended in the wrapped function while the clear ran.        *)

NothingFromBeforeClear ==
    [][CacheReturnStep => Ret.from.epoch = epoch]_vars

----------------------------------------------------------------------------
(* A TTLCache under keys of every type _make_key accepts.                   *)

\* the number of get and set calls of a run over these keys
MaxKeyOps == 3

One == IntKey(1)
Two == IntKey(2)
Nested(items) == DictKey(<<<<"p", DictKey(items)>>>>)

\* a string and a number, a boolean and a string, a tuple and a list, a dict in
\* two insertion orders and with other values, a nested dict in two orders
KeyShapes ==
    {StrKey("1"), One, BoolKey(TRUE), StrKey("True"),
     TupleKey(<<One, Two>>), ListKey(<<One, Two>>),
     DictKey(<<<<"a", One>>, <<"b", Two>>>>), DictKey(<<<<"b", Two>>, <<"a", One>>>>),
     DictKey(<<<<"a", Two>>, <<"b", One>>>>),
     Nested(<<<<"a", One>>, <<"b", Two>>>>), Nested(<<<<"b", Two>>, <<"a", One>>>>)}

RECURSIVE SameContent(_, _)
\* the two keys are equal values: scalars of the same kind and value (a bool is
\* an int), sequences of the same type with equal items in order, dicts with
\* the same names and equal values
SameContent(k1, k2) ==
    CASE k1.t \in {"int", "bool"} -> k2.t \in {"int", "bool"} /\ k1.i = k2.i
      [] k1.t = "str" -> k2.t = "str" /\ k1.s = k2.s
      [] k1.t = "none" -> k2.t = "none"
      [] k1.t \in {"tuple", "list"} ->
            /\ k2.t = k1.t
            /\ Len(k1.items) = Len(k2.items)
            /\ \A j \in 1..Len(k1.items) : SameContent(k1.items[j], k2.items[j])
      [] k1.t = "dict" ->
            /\ k2.t = "dict"
            /\ {k1.items[j][1] : j \in 1..Len(k1.items)}
                  = {k2.items[j][1] : j \in 1..Len(k2.items)}
            /\ \A j \in 1..Len(k1.items) :
                  SameContent(k1.items[j][2], ItemOf(k2.items, k1.items[j][1]))

\* who stored the entry of a key
StoredBy(key) ==
    [fn |-> "set", params |-> <<key>>, epoch |-> 0, at |-> now, ttl |-> ttl_seconds]

\* cache.get(key)
KeyGet(key) ==
    /\ kind = "keys"
    /\ nops < MaxKeyOps
    /\ Get(key)
    /\ raw' = <<key>>
    /\ UNCHANGED <<kind, sig, deco, co, origin, epoch, log, lutVars, apiVars>>

\* cache.set(key, value)
KeySet(key, value) ==
    /\ kind = "keys"
    /\ nops < MaxKeyOps
    /\ Set(key, value)
    /\ raw' = <<key>>
    /\ origin' = [origin EXCEPT ![MakeKey(key)] = StoredBy(key)]
    /\ UNCHANGED <<kind, sig, deco, co, epoch, log, lutVars, apiVars>>

\* the clock of time.time() advances between calls
KeyTick ==
    /\ kind = "keys"
    /\ Tick
    /\ UNCHANGED <<wrapVars, lutVars, apiVars>>

\* a cache after construction
InitKey ==
    /\ kind = "keys"
    /\ max_size = MaxSize
    /\ ttl_seconds = Ttl
    /\ cache = <<>>
    /\ timestamps = EmptyDict
    /\ hits = 0
    /\ misses = 0
    /\ evictions = 0
    /\ expirations = 0
    /\ now = 0
    /\ last = [op |-> "init", key |-> "", value |-> None, t |-> 0, size |-> 0,
               ret |-> None, n |-> 0]
    /\ stats_ret = <<>>
    /\ nops = 0
    /\ ngets = 0
    /\ lastUse = [k \in {MakeKey(key) : key \in KeyShapes} |-> [at |-> 0, by |-> "none"]]
    /\ sinceClear = FALSE
    /\ sig = <<>>
    /\ deco = <<>>
    /\ co = <<>>
    /\ origin = [k \in {MakeKey(key) : key \in KeyShapes} |-> NoOrigin]
    /\ epoch = 0
    /\ log = <<>>
    /\ raw = <<>>
    /\ LutIdle
    /\ ApiIdle

NextKey ==
    \/ \E key \in KeyShapes : KeyGet(key)
    \/ \E key \in KeyShapes, value \in Values : KeySet(key, value)
    \/ KeyTick

SpecKey == InitKey /\ [][NextKey]_vars

----------------------------------------------------------------------------
(* C16: two dicts, nested ones too, with the same names and values in       *)
(* another insertion order have the same cache key, so a get under one      *)
(* right after a set under the other returns the value that was set.        *)

\* two different dicts of equal content
Reordered(k1, k2) == k1.t = "dict" /\ k1 # k2 /\ SameContent(k1, k2)

OrderIndependentKeys ==
    /\ \A k1, k2 \in KeyShapes : Reordered(k1, k2) => MakeKey(k1) = MakeKey(k2)
    /\ [][\A k1, k2 \in KeyShapes :
             (/\ Reordered(k1, k2)
              /\ last.op = "set" /\ raw = <<k1>> /\ last.t = now
              /\ GetStep /\ raw' = <<k2>>) => last'.ret = last.value]_vars

OrderIndependentKeys_Witness ==
    /\ last.op = "get"
    /\ last.ret = "v1"
    /\ raw = <<Nested(<<<<"b", Two>>, <<"a", One>>>>)>>
    /\ origin[last.key].params = <<Nested(<<<<"a", One>>, <<"b", Two>>>>)>>
    /\ nops = 2

----------------------------------------------------------------------------
(* C17: keys of different content have different cache keys, so a get or a  *)
(* set finds an entry under its cache key only if the entry was set under  *)
(* a key of the same content: no entry is returned for, replaced by or      *)
(* moved to the most recently used place by a call with another key.        *)

DifferentContentDifferentKeys ==
    [][\A k \in KeyShapes :
          ((GetStep \/ SetStep) /\ raw' = <<k>> /\ HasKey(cache, MakeKey(k))) =>
              SameContent(origin[MakeKey(k)].params[1], k)]_vars

----------------------------------------------------------------------------
(* make_colormap_lut and apply_lut of app/processing/image.py.              *)
(*                                                                         *)
(* lut is a function from the indices 0..255 to <<r, g, b>>; channel c of   *)
(* the source is position c + 1 of the triple.  The build is followed one   *)
(* slice assignment at a time; lut_pc = <<i, channel>> are the two loop     *)
(* counters.                                                                *)

\* the rows of the table: np.zeros((256, 3))
LutSize == 256
\* the channels of a colour
Channels == 3
\* the values of a uint8
Uint8 == 256

COLOR_STOPS ==
    <<<<0, <<0, 0, 139>>>>,
      <<64, <<0, 139, 139>>>>,
      <<128, <<0, 200, 100>>>>,
      <<192, <<255, 215, 0>>>>,
      <<255, <<255, 69, 0>>>>>>

\* a linspace whose last sample is one step short of stop
LinspaceNoEndpoint(start, stop, num) ==
    [j \in 0..num - 1 |-> ((start * num + j * (stop - start)) \div num) % Uint8]

\* np.linspace(start, stop, num, dtype=np.uint8): num samples from start to stop,
\* the last one stop itself, the others floored to an integer
Linspace(start, stop, num) ==
    [j \in 0..num - 1 |->
        IF j = num - 1 THEN stop % Uint8
        ELSE ((start * (num - 1) + j * (stop - start)) \div (num - 1)) % Uint8]

\* the build is over
LutBuilt == lut_pc[1] = Len(COLOR_STOPS) - 1

\* lut[start_idx : end_idx + 1, channel] = np.linspace(...), for the range and the
\* channel the loops are at
FillChannel ==
    /\ kind = "none"
    /\ lut_pc # <<>>
    /\ ~LutBuilt
    /\ LET i == lut_pc[1]
           channel == lut_pc[2]
           start_idx == COLOR_STOPS[i + 1][1]
           start_color == COLOR_STOPS[i + 1][2]
           end_idx == COLOR_STOPS[i + 2][1]
           end_color == COLOR_STOPS[i + 2][2]
           num_steps == end_idx - start_idx
           samples == Linspace(start_color[channel + 1], end_color[channel + 1],
                               num_steps + 1)
       IN
       /\ lut' = [idx \in DOMAIN lut |->
                     IF idx >= start_idx /\ idx < end_idx + 1
                     THEN [lut[idx] EXCEPT ![channel + 1] = samples[idx - start_idx]]
                     ELSE lut[idx]]
       /\ lut_pc' = IF channel + 1 = Channels THEN <<i + 1, 0>> ELSE <<i, channel + 1>>
    /\ UNCHANGED <<rgb, proc, ingest, cacheVars, wrapVars, apiVars>>

\* apply_lut(gray, COLORMAP_LUT) for an image of one pixel: lut[gray]
ApplyLut(gray) ==
    /\ kind = "none"
    /\ lut_pc # <<>>
    /\ LutBuilt
    /\ rgb' = <<lut[gray]>>
    /\ UNCHANGED <<lut, lut_pc, proc, ingest, cacheVars, wrapVars, apiVars>>

\* make_colormap_lut after np.zeros((256, 3)); no cache is followed
InitLut ==
    /\ lut = [idx \in 0..LutSize - 1 |-> [c \in 1..Channels |-> 0]]
    /\ lut_pc = <<0, 0>>
    /\ rgb = <<>>
    /\ proc = <<>>
    /\ ingest = <<>>
    /\ max_size = 0
    /\ ttl_seconds = 0
    /\ cache = <<>>
    /\ timestamps = EmptyDict
    /\ hits = 0
    /\ misses = 0
    /\ evictions = 0
    /\ expirations = 0
    /\ now = 0
    /\ last = [op |-> "init", key |-> "", value |-> None, t |-> 0, size |-> 0,
               ret |-> None, n |-> 0]
    /\ stats_ret = <<>>
    /\ nops = 0
    /\ ngets = 0
    /\ lastUse = <<>>
    /\ sinceClear = FALSE
    /\ WrapIdle
    /\ ApiIdle

NextLut ==
    \/ FillChannel
    \/ \E gray \in 0..Uint8 - 1 : ApplyLut(gray)

SpecLut == InitLut /\ [][NextLut]_vars

----------------------------------------------------------------------------
(* C20: the table has 256 entries of three channels, and once built it has  *)
(* at every stop level the stop's colour; a level that ends one range and   *)
(* starts the next (64, 128, 192) is written by both and holds the colour   *)
(* of the stop that starts the later range, from the end of the earlier     *)
(* range on.                                                                *)

\* the ranges whose three channels are filled
RangesDone == lut_pc[1]

StopsExact ==
    /\ DOMAIN lut = 0..255
    /\ Cardinality(DOMAIN lut) = 256
    /\ \A idx \in DOMAIN lut : Len(lut[idx]) = 3 /\ \A c \in 1..3 : lut[idx][c] \in 0..255
    /\ LutBuilt => \A n \in 1..Len(COLOR_STOPS) : lut[COLOR_STOPS[n][1]] = COLOR_STOPS[n][2]
    /\ \A n \in 2..Len(COLOR_STOPS) - 1 :
          RangesDone >= n - 1 => lut[COLOR_STOPS[n][1]] = COLOR_STOPS[n][2]
    /\ rgb # <<>> => \E gray \in DOMAIN lut : rgb[1] = lut[gray]

StopsExact_Witness ==
    /\ LutBuilt
    /\ lut[64] = <<0, 139, 139>>
    /\ lut[128] = <<0, 200, 100>>
    /\ lut[192] = <<255, 215, 0>>
    /\ lut[255] = <<255, 69, 0>>
    /\ rgb = <<lut[192]>>

----------------------------------------------------------------------------
(* C21: once the table is built, for every pair of adjacent stops, every    *)
(* index j from the first stop's level up to, but without, the second's     *)
(* (which the later range writes), and the last level 255, every channel    *)
(* holds the linear interpolation between the two stop colours at j,        *)
(* rounded to the nearest integer.                                          *)

\* round(rgb_i[c] + (rgb_i+1[c] - rgb_i[c]) * (j - level_i) / (level_i+1 - level_i))
RoundedLerp(n, j, c) ==
    LET level == COLOR_STOPS[n][1]
        width == COLOR_STOPS[n + 1][1] - level
        from == COLOR_STOPS[n][2][c]
        to == COLOR_STOPS[n + 1][2][c]
    IN RoundHalfEven(from * width + (to - from) * (j - level), width)

InterpolationRounded ==
    (lut_pc # <<>> /\ LutBuilt) =>
        \A n \in 1..Len(COLOR_STOPS) - 1 :
            \A j \in COLOR_STOPS[n][1]..COLOR_STOPS[n + 1][1] :
                (j < COLOR_STOPS[n + 1][1] \/ n = Len(COLOR_STOPS) - 1) =>
                    \A c \in 1..3 : lut[j][c] = RoundedLerp(n, j, c)

----------------------------------------------------------------------------
(* C26: under cache_frame the wrapper of the plain function g decides as    *)
(* the wrapper of the coroutine function f: calls with the same arguments   *)
(* get the same cache key or are both passed by the cache, and the key is   *)
(* made of the argument bound to the parameter named depth.                 *)

\* the key of the depth the call binds to the parameter named depth
DepthKey(sg, call) ==
    IF Named("frame", sg, call) THEN "frame:" \o Str(Bind(sg, call, "depth", NoneArg))
    ELSE NoKey

SyncSameAsAsync ==
    kind = "frame" =>
        /\ \A i, j \in 1..Len(log) : log[i].call = log[j].call => log[i].key = log[j].key
        /\ \A i \in 1..Len(log) : log[i].key = DepthKey(sig, log[i].call)

----------------------------------------------------------------------------
(* C29: under cache_frame a call of a wrapped function that is answered     *)
(* from the cache is answered with a value the same function returned for   *)
(* the same depth: never with a value that another wrapped function stored. *)

OwnValuesOnly ==
    [][(kind = "frame" /\ CacheReturnStep) =>
          /\ Ret.from.fn = Ret.fn
          /\ Ret.from.params = Ret.params]_vars

----------------------------------------------------------------------------
(* C27: a get that finds a fresh entry moves it to the most recently used   *)
(* place and leaves every timestamp as it is; only a set of a key changes   *)
(* the timestamp of that key, to the time of the set; and a get of an entry *)
(* older than ttl_seconds since then returns None and removes it, however   *)
(* often the entry was read in between.                                     *)

TtlCountsFromLastSet ==
    [][/\ (GetStep /\ hits' = hits + 1) =>
              /\ timestamps' = timestamps
              /\ cache'[Len(cache')].key = last'.key
       /\ \A k \in DOMAIN timestamps \cap DOMAIN timestamps' :
              timestamps'[k] # timestamps[k] => SetStep /\ last'.key = k
       /\ (SetStep /\ HasKey(cache', last'.key)) => timestamps'[last'.key] = now
       /\ (GetStep /\ Stale(last'.key)) =>
              /\ last'.ret = None
              /\ ~HasKey(cache', last'.key)]_vars

\* set k; get k, a hit; get k again when the set is more than ttl_seconds ago
TtlCountsFromLastSet_Witness ==
    /\ nops = 3
    /\ last.op = "get"
    /\ last.ret = None
    /\ hits = 1
    /\ expirations = 1
    /\ lastUse[last.key] = [at |-> 2, by |-> "get"]
    /\ now = Ttl + 1

----------------------------------------------------------------------------
(* C28: a set of a new key into a cache that holds max_size entries removes *)
(* the least recently used entry and no other, whatever the ages: entries   *)
(* older than ttl_seconds that were not read or swept count in the size and *)
(* stay when the least recently used entry is fresh.                        *)

EvictsByRecencyNotFreshness ==
    [][(SetStep /\ ~HasKey(cache, last'.key) /\ Len(cache) >= 1 /\ Len(cache) = max_size) =>
          /\ evictions' = evictions + 1
          /\ ~HasKey(cache', cache[1].key)
          /\ \A i \in 2..Len(cache) : HasKey(cache', cache[i].key)
          /\ Len(cache') = max_size]_vars

\* max_size = 2: set a, set b, get a, a expires, set c evicts the fresh b
EvictsByRecencyNotFreshness_Witness ==
    /\ max_size = 2
    /\ nops = 4
    /\ last.op = "set"
    /\ evictions = 1
    /\ last.n <= ttl_seconds
    /\ last.t = now
    /\ Len(cache) = 2
    /\ Stale(cache[1].key)
    /\ lastUse[cache[1].key] = [at |-> 3, by |-> "get"]

----------------------------------------------------------------------------
(* process_row_to_png of app/processing/image.py and                       *)
(* process_chunk_to_frames of app/processing/ingest.py.                     *)
(*                                                                         *)
(* A value of a row is a record [t, s, i] like a raw key: a number, or a    *)
(* string that float() and np.array(..., dtype=np.float64) reject.  A PNG   *)
(* is the sequence of its bytes: the signature, then the width, the height  *)
(* and the channels of the pixels.  Widths are positive.                    *)

\* the largest source_width and target_width, and the longest row
MaxWidth == 3
\* the largest number of rows of a chunk
MaxRows == 2

\* COLORMAP_LUT = make_colormap_lut(): index idx is written last by the last
\* range that holds it
COLORMAP_LUT ==
    [idx \in 0..LutSize - 1 |->
        LET n == CHOOSE m \in 1..Len(COLOR_STOPS) - 1 :
                    /\ COLOR_STOPS[m][1] <= idx
                    /\ idx <= COLOR_STOPS[m + 1][1]
                    /\ (m = Len(COLOR_STOPS) - 1 \/ idx < COLOR_STOPS[m + 1][1])
            level == COLOR_STOPS[n][1]
            width == COLOR_STOPS[n + 1][1] - level
        IN [c \in 1..Channels |->
               Linspace(COLOR_STOPS[n][2][c], COLOR_STOPS[n + 1][2][c], width + 1)[idx - level]]]

\* np.clip(v, 0, 255).astype(np.uint8)
Clip(v) == IF v < 0 THEN 0 ELSE IF v > Uint8 - 1 THEN Uint8 - 1 ELSE v

Abs(x) == IF x < 0 THEN -x ELSE x
Max(a, b) == IF a > b THEN a ELSE b

RECURSIVE SumOver(_, _)
\* f[1] + ... + f[n]
SumOver(f, n) == IF n = 0 THEN 0 ELSE f[n] + SumOver(f, n - 1)

\* Image.resize((new_width, 1), BILINEAR): every pixel of the result is the
\* average of the source pixels under a triangle of half-width max(scale, 1)
\* source pixels around its centre, rounded
Resample(gray, new_width) ==
    LET width == Len(gray)
        span == 2 * Max(width, new_width)
        weight(x, xx) == Max(0, span - Abs((2 * x - 1) * new_width - (2 * xx - 1) * width))
    IN [xx \in 1..new_width |->
           LET total == SumOver([x \in 1..width |-> weight(x, xx)], width)
               mass == SumOver([x \in 1..width |-> weight(x, xx) * gray[x]], width)
           IN (2 * mass + total) \div (2 * total)]

\* resize_grayscale_row / resize_gray_width: the row itself when it has the width
ResizeGrayWidth(gray, new_width) ==
    IF Len(gray) = new_width THEN gray ELSE Resample(gray, new_width)

\* apply_colormap: COLORMAP_LUT[gray] for every pixel
ApplyColormap(gray) == [x \in 1..Len(gray) |-> COLORMAP_LUT[gray[x]]]

PngSignature == <<137, 80, 78, 71, 13, 10, 26, 10>>

RECURSIVE Flatten(_)
Flatten(pixels) == IF Len(pixels) = 0 THEN <<>> ELSE pixels[1] \o Flatten(Tail(pixels))

\* encode_to_png of an image of one row
EncodeToPng(rgb_row) == PngSignature \o <<Len(rgb_row), 1>> \o Flatten(rgb_row)

\* float(v) / np.array(v, dtype=np.float64) accepts v
IsNumber(v) == v.t = "int"

Raised(error) == [raised |-> error, png |-> <<>>, width |-> 0, height |-> 0]

\* a process_row_to_png that accepts a row longer than source_width
ProcessRowAcceptsLonger(row_data, source_width, target_width) ==
    IF \E x \in 1..Len(row_data) : ~IsNumber(row_data[x]) THEN Raised("ValueError")
    ELSE LET grayscale == [x \in 1..Len(row_data) |-> Clip(row_data[x].i)] IN
         IF Len(grayscale) < source_width THEN Raised("ValueError")
         ELSE LET resized_gray == ResizeGrayWidth(grayscale, target_width)
              IN [raised |-> "", png |-> EncodeToPng(ApplyColormap(resized_gray)),
                  width |-> target_width, height |-> 1]

\* process_row_to_png(row_data, source_width, target_width)
ProcessRowToPng(row_data, source_width, target_width) ==
    IF \E x \in 1..Len(row_data) : ~IsNumber(row_data[x]) THEN Raised("ValueError")
    ELSE LET grayscale == [x \in 1..Len(row_data) |-> Clip(row_data[x].i)] IN
         IF Len(grayscale) # source_width THEN Raised("ValueError")
         ELSE LET resized_gray == ResizeGrayWidth(grayscale, target_width)
                  rgb_row == ApplyColormap(resized_gray)
              IN [raised |-> "", png |-> EncodeToPng(rgb_row),
                  width |-> target_width, height |-> 1]

\* the values a cell of a row can hold: below, inside and above 0..255, and text
PixelValues == {IntKey(-5), IntKey(100), IntKey(300), StrKey("x")}
\* the values of the depth column: two depths and text
DepthValues == {IntKey(1), IntKey(2), StrKey("abc")}
Widths == 1..MaxWidth

RowsOfLength(n) == [1..n -> PixelValues]
RowData == UNION {RowsOfLength(n) : n \in 0..MaxWidth}

\* a DataFrame: npix pixel columns after the depth column, the same for all rows
ChunkRows(npix) == [depth : DepthValues, pixels : [1..npix -> {IntKey(100), StrKey("x")}]]
Chunks ==
    UNION {[npix : {npix}, rows : UNION {[1..n -> ChunkRows(npix)] : n \in 0..MaxRows}]
           : npix \in 1..MaxWidth - 1}

\* a call of process_row_to_png from outside process_chunk_to_frames
ProcessRow(row_data, source_width, target_width) ==
    /\ kind = "none"
    /\ lut_pc = <<>>
    /\ ingest = <<>>
    /\ proc = <<>>
    /\ proc' = [row_data |-> row_data, source_width |-> source_width,
                target_width |-> target_width,
                result |-> ProcessRowToPng(row_data, source_width, target_width)]
    /\ UNCHANGED <<lut, lut_pc, rgb, ingest, cacheVars, wrapVars, apiVars>>

\* process_chunk_to_frames up to its loop: the check of the number of columns
ChunkEnter(chunk_df, source_width, target_width) ==
    /\ kind = "none"
    /\ lut_pc = <<>>
    /\ ingest = <<>>
    /\ proc = <<>>
    /\ ingest' = [chunk_df |-> chunk_df, source_width |-> source_width,
                  target_width |-> target_width, idx |-> 0, frames |-> <<>>,
                  status |-> IF chunk_df.npix # source_width THEN "raised" ELSE "running",
                  returned |-> <<>>]
    /\ UNCHANGED <<lut, lut_pc, rgb, proc, cacheVars, wrapVars, apiVars>>

\* one turn of the loop of process_chunk_to_frames: the try body, and on an
\* exception the handler, which converts the depth again for the log
ChunkRow ==
    /\ ingest # <<>>
    /\ ingest.status = "running"
    /\ ingest.idx < Len(ingest.chunk_df.rows)
    /\ LET row == ingest.chunk_df.rows[ingest.idx + 1]
           made == ProcessRowToPng(row.pixels, ingest.source_width, ingest.target_width)
       IN IF ~IsNumber(row.depth)
          THEN \* float(row[depth_col]) raises in the try and again in the handler
               ingest' = [ingest EXCEPT !.status = "raised"]
          ELSE IF made.raised # ""
          THEN \* logged, continue
               ingest' = [ingest EXCEPT !.idx = @ + 1]
          ELSE ingest' = [ingest EXCEPT !.idx = @ + 1,
                             !.frames = Append(@, [depth |-> row.depth.i,
                                                   image_png |-> made.png,
                                                   width |-> made.width,
                                                   height |-> made.height])]
    /\ UNCHANGED <<lut, lut_pc, rgb, proc, cacheVars, wrapVars, apiVars>>

\* return frames, after the last row
ChunkReturn ==
    /\ ingest # <<>>
    /\ ingest.status = "running"
    /\ ingest.idx = Len(ingest.chunk_df.rows)
    /\ ingest' = [ingest EXCEPT !.status = "returned", !.returned = ingest.frames]
    /\ UNCHANGED <<lut, lut_pc, rgb, proc, cacheVars, wrapVars, apiVars>>

\* nothing called yet; no cache and no table under construction is followed
InitProc ==
    /\ lut = <<>>
    /\ lut_pc = <<>>
    /\ rgb = <<>>
    /\ proc = <<>>
    /\ ingest = <<>>
    /\ max_size = 0
    /\ ttl_seconds = 0
    /\ cache = <<>>
    /\ timestamps = EmptyDict
    /\ hits = 0
    /\ misses = 0
    /\ evictions = 0
    /\ expirations = 0
    /\ now = 0
    /\ last = [op |-> "init", key |-> "", value |-> None, t |-> 0, size |-> 0,
               ret |-> None, n |-> 0]
    /\ stats_ret = <<>>
    /\ nops = 0
    /\ ngets = 0
    /\ lastUse = <<>>
    /\ sinceClear = FALSE
    /\ WrapIdle
    /\ ApiIdle

NextProc ==
    \/ /\ proc = <<>> /\ ingest = <<>>
       /\ \E row_data \in RowData, source_width \in Widths, target_width \in Widths :
              ProcessRow(row_data, source_width, target_width)
    \/ /\ proc = <<>> /\ ingest = <<>>
       /\ \E chunk_df \in Chunks, source_width \in Widths, target_width \in Widths :
              ChunkEnter(chunk_df, source_width, target_width)
    \/ ChunkRow
    \/ ChunkReturn

SpecProc == InitProc /\ [][NextProc]_vars

\* the values of a row, clamped as process_row_to_png clamps them
Clamped(row_data) == [x \in 1..Len(row_data) |-> IntKey(Clip(row_data[x].i))]
AllNumbers(row_data) == \A x \in 1..Len(row_data) : IsNumber(row_data[x])

\* C22: process_row_to_png of numbers fails, with no output, whenever their
\* count differs from source_width; otherwise it returns (png, target_width, 1)
\* where png begins with the PNG signature, and a value outside 0..255 gives
\* what its clamped value gives instead of an error.
RowToPngChecksWidthAndClamps ==
    (proc # <<>> /\ AllNumbers(proc.row_data)) =>
        IF Len(proc.row_data) # proc.source_width
        THEN /\ proc.result.raised = "ValueError"
             /\ proc.result.png = <<>>
        ELSE /\ proc.result.raised = ""
             /\ proc.result.width = proc.target_width
             /\ proc.result.height = 1
             /\ Len(proc.result.png) > Len(PngSignature)
             /\ SubSeq(proc.result.png, 1, Len(PngSignature)) = PngSignature
             /\ proc.result = ProcessRowToPng(Clamped(proc.row_data), proc.source_width,
                                              proc.target_width)

\* a row with a value on each side of 0..255 was resized from 2 to 3 pixels
RowToPngChecksWidthAndClamps_Witness ==
    /\ proc # <<>>
    /\ proc.row_data = <<IntKey(300), IntKey(-5)>>
    /\ proc.source_width = 2
    /\ proc.target_width = 3
    /\ proc.result.raised = ""
    /\ Len(proc.result.png) = Len(PngSignature) + 2 + 3 * Channels

\* the rows of a chunk that process, in their order
RECURSIVE FramesOf(_, _, _)
FramesOf(rows, source_width, target_width) ==
    IF Len(rows) = 0 THEN <<>>
    ELSE LET row == rows[1]
             made == ProcessRowToPng(row.pixels, source_width, target_width)
             rest == FramesOf(Tail(rows), source_width, target_width)
         IN IF IsNumber(row.depth) /\ made.raised = ""
            THEN <<[depth |-> row.depth.i, image_png |-> made.png,
                    width |-> made.width, height |-> made.height]>> \o rest
            ELSE rest

\* C23: in process_chunk_to_frames a row whose processing raises, for any
\* cause including an unparseable depth, is skipped and the other rows are
\* still processed: the call never raises once the columns are right, and it
\* returns one frame for each row that processes, in the order of the input.
FailedRowsSkipped ==
    (ingest # <<>> /\ ingest.chunk_df.npix = ingest.source_width) =>
        /\ ingest.status # "raised"
        /\ (ingest.status = "returned" =>
                ingest.returned = FramesOf(ingest.chunk_df.rows, ingest.source_width,
                                           ingest.target_width))

----------------------------------------------------------------------------
(* The routes of app/api/routes.py over the table of frames and the two     *)
(* caches: GET /frames, POST /frames/reload and DELETE /cache.               *)
(*                                                                         *)
(* A depth is a number 1..MaxDepth and is the primary key of the table; an  *)
(* image is named after the file it was ingested from.  A CSV file is the   *)
(* sequence of its chunks, and a chunk either gives frames to upsert or      *)
(* makes ingest_csv raise.  A handler is one step.                           *)

\* the largest depth of a frame
MaxDepth == 2
\* the largest limit of a GET /frames
MaxLimit == 2
\* the number of requests of a run
MaxRequests == 3

FrameDepths == 1..MaxDepth
\* depth_min and depth_max of GET /frames: a depth, or None
DepthBounds == {IntKey(d) : d \in FrameDepths} \cup {NoneArg}
AdminTokens == {"", "secret"}
\* the X-Admin-Token header: missing, empty, the secret, something else
HeaderTokens == {None, "", "secret", "wrong"}
FrameCacheKeys == {"frame:1"}
RangeCacheKeys == {"range:1:2:100:0"}

\* a chunk of a file: the depths of its rows, or an exception
ChunkKinds == {[depths |-> {1}, raises |-> FALSE],
               [depths |-> {2}, raises |-> FALSE],
               [depths |-> {}, raises |-> TRUE]}
CsvMissing == [exists |-> FALSE, png |-> "", chunks |-> <<>>]
CsvFiles == {[exists |-> TRUE, png |-> "b.csv", chunks |-> c] :
                c \in UNION {[1..n -> ChunkKinds] : n \in 1..2}}
Csvs == {CsvMissing} \cup CsvFiles

\* bool(token)
Truthy(token) == token # None /\ token # ""

\* a reload that only compares the header with the configured token
ReloadIfEqual(x_admin_token) == x_admin_token = admin_token

\* reload_frames goes on past its authentication check
ReloadAuthorized(x_admin_token) ==
    ~(~Truthy(admin_token) \/ x_admin_token # admin_token)

\* clear_caches goes on past its authentication check
ClearAuthorized(x_admin_token) ==
    ~(~Truthy(x_admin_token) \/ x_admin_token # admin_token)

\* upsert_frames: insert, or update on a conflict of depth
UpsertFrames(table, depths, png) ==
    [d \in (DOMAIN table) \cup depths |-> IF d \in depths THEN png ELSE table[d]]

RECURSIVE IngestCsv(_, _, _)
\* ingest_csv: every chunk is upserted and committed before the next is read
IngestCsv(table, chunks, png) ==
    IF Len(chunks) = 0 THEN [table |-> table, raised |-> FALSE]
    ELSE IF chunks[1].raises THEN [table |-> table, raised |-> TRUE]
    ELSE IngestCsv(UpsertFrames(table, chunks[1].depths, png), Tail(chunks), png)

\* the depths of the frames within depth_min..depth_max, None for no bound
Matching(table, depth_min, depth_max) ==
    {d \in DOMAIN table : /\ (depth_min # NoneArg => d >= depth_min.i)
                          /\ (depth_max # NoneArg => d <= depth_max.i)}

RECURSIVE OrderByDepth(_)
\* ORDER BY depth
OrderByDepth(depths) ==
    IF depths = {} THEN <<>>
    ELSE LET least == CHOOSE d \in depths : \A e \in depths : d <= e
         IN <<least>> \o OrderByDepth(depths \ {least})

Min(a, b) == IF a < b THEN a ELSE b

\* LIMIT limit OFFSET offset
LimitOffset(rows, limit, offset) == SubSeq(rows, offset + 1, Min(offset + limit, Len(rows)))

\* a query that fetches limit rows, not limit + 1
GetFramesByDepthRangeExact(table, depth_min, depth_max, limit, offset) ==
    LimitOffset(OrderByDepth(Matching(table, depth_min, depth_max)), limit - 1, offset)

\* get_frames_by_depth_range
GetFramesByDepthRange(table, depth_min, depth_max, limit, offset) ==
    LimitOffset(OrderByDepth(Matching(table, depth_min, depth_max)), limit, offset)

NoPager == <<>>

\* what the paging client knows after a page
Paged(depth_min, depth_max, limit, offset, page, has_more) ==
    IF offset = 0
    THEN [depth_min |-> depth_min, depth_max |-> depth_max, limit |-> limit,
          next |-> limit, got |-> page, done |-> ~has_more, stable |-> TRUE]
    ELSE IF /\ pager # NoPager
            /\ ~pager.done
            /\ pager.depth_min = depth_min /\ pager.depth_max = depth_max
            /\ pager.limit = limit /\ pager.next = offset
    THEN [pager EXCEPT !.next = @ + limit, !.got = @ \o page, !.done = ~has_more]
    ELSE pager

\* GET /frames
GetFrames(depth_min, depth_max, limit, offset) ==
    /\ kind = "api"
    /\ nreq < MaxRequests
    /\ nreq' = nreq + 1
    /\ IF depth_min # NoneArg /\ depth_max # NoneArg /\ depth_max.i < depth_min.i
       THEN /\ resp' = [route |-> "get_frames", status |-> 400, depth_min |-> depth_min,
                        depth_max |-> depth_max, limit |-> limit, offset |-> offset,
                        frames |-> <<>>, has_more |-> FALSE]
            /\ pager' = pager
       ELSE LET frames_list == GetFramesByDepthRange(db_frames, depth_min, depth_max,
                                                     limit + 1, offset)
                has_more == Len(frames_list) > limit
                trimmed == IF has_more THEN SubSeq(frames_list, 1, limit) ELSE frames_list
                frame_responses == [n \in 1..Len(trimmed) |->
                                       [depth |-> trimmed[n],
                                        image_png |-> db_frames[trimmed[n]]]]
            IN /\ resp' = [route |-> "get_frames", status |-> 200,
                           depth_min |-> depth_min, depth_max |-> depth_max,
                           limit |-> limit, offset |-> offset,
                           frames |-> frame_responses, has_more |-> has_more]
               /\ pager' = Paged(depth_min, depth_max, limit, offset, frame_responses,
                                 has_more)
    /\ UNCHANGED <<admin_token, db_frames, caches, kind, sig, deco, co, origin, epoch, log,
                   raw, cacheVars, lutVars>>

\* POST /frames/reload
ReloadFrames(x_admin_token, clear_existing, csv) ==
    /\ kind = "api"
    /\ nreq < MaxRequests
    /\ nreq' = nreq + 1
    /\ LET cleared == IF clear_existing THEN <<>> ELSE db_frames
           result == IngestCsv(cleared, csv.chunks, csv.png)
           answer(code) == [route |-> "reload_frames", status |-> code,
                            token |-> x_admin_token, clear_existing |-> clear_existing]
       IN IF ~ReloadAuthorized(x_admin_token)
          THEN /\ resp' = answer(401)
               /\ UNCHANGED <<db_frames, caches>>
          ELSE IF ~csv.exists
          THEN \* the delete is committed before the file is looked for
               /\ resp' = answer(400)
               /\ db_frames' = cleared
               /\ UNCHANGED caches
          ELSE IF result.raised
          THEN /\ resp' = answer(500)
               /\ db_frames' = result.table
               /\ UNCHANGED caches
          ELSE /\ resp' = answer(200)
               /\ db_frames' = result.table
               /\ caches' = [frame_cache |-> {}, range_cache |-> {}]
    /\ pager' = IF pager # NoPager /\ db_frames' # db_frames
                THEN [pager EXCEPT !.stable = FALSE] ELSE pager
    /\ UNCHANGED <<admin_token, kind, sig, deco, co, origin, epoch, log, raw, cacheVars,
                   lutVars>>

\* DELETE /cache
ClearCaches(x_admin_token) ==
    /\ kind = "api"
    /\ nreq < MaxRequests
    /\ nreq' = nreq + 1
    /\ IF ~ClearAuthorized(x_admin_token)
       THEN /\ resp' = [route |-> "clear_caches", status |-> 401, token |-> x_admin_token]
            /\ UNCHANGED caches
       ELSE /\ resp' = [route |-> "clear_caches", status |-> 200, token |-> x_admin_token,
                        previous_sizes |->
                            [frame_cache |-> Cardinality(caches.frame_cache),
                             range_cache |-> Cardinality(caches.range_cache)]]
            /\ caches' = [frame_cache |-> {}, range_cache |-> {}]
    /\ UNCHANGED <<admin_token, db_frames, pager, kind, sig, deco, co, origin, epoch, log,
                   raw, cacheVars, lutVars>>

\* a function under cache_frame or cache_range stores a result
CacheFill(name, key) ==
    /\ kind = "api"
    /\ key \notin caches[name]
    /\ caches' = [caches EXCEPT ![name] = @ \cup {key}]
    /\ UNCHANGED <<admin_token, db_frames, resp, pager, nreq, kind, sig, deco, co, origin,
                   epoch, log, raw, cacheVars, lutVars>>

\* the service with some frames ingested from a.csv, empty caches and its token
InitApi ==
    /\ kind = "api"
    /\ sig = <<>>
    /\ deco = <<>>
    /\ co = <<>>
    /\ origin = <<>>
    /\ epoch = 0
    /\ log = <<>>
    /\ raw = <<>>
    /\ LutIdle
    /\ max_size = 0
    /\ ttl_seconds = 0
    /\ cache = <<>>
    /\ timestamps = EmptyDict
    /\ hits = 0
    /\ misses = 0
    /\ evictions = 0
    /\ expirations = 0
    /\ now = 0
    /\ last = [op |-> "init", key |-> "", value |-> None, t |-> 0, size |-> 0,
               ret |-> None, n |-> 0]
    /\ stats_ret = <<>>
    /\ nops = 0
    /\ ngets = 0
    /\ lastUse = <<>>
    /\ sinceClear = FALSE
    /\ admin_token \in AdminTokens
    /\ \E depths \in SUBSET FrameDepths : db_frames = [d \in depths |-> "a.csv"]
    /\ caches = [frame_cache |-> {}, range_cache |-> {}]
    /\ resp = <<>>
    /\ pager = NoPager
    /\ nreq = 0

NextApi ==
    \/ \E depth_min \in DepthBounds, depth_max \in DepthBounds,
          limit \in 1..MaxLimit, offset \in 0..MaxDepth :
           GetFrames(depth_min, depth_max, limit, offset)
    \/ \E x_admin_token \in HeaderTokens, clear_existing \in BOOLEAN, csv \in Csvs :
           ReloadFrames(x_admin_token, clear_existing, csv)
    \/ \E x_admin_token \in HeaderTokens : ClearCaches(x_admin_token)
    \/ \E key \in FrameCacheKeys : CacheFill("frame_cache", key)
    \/ \E key \in RangeCacheKeys : CacheFill("range_cache", key)

SpecApi == InitApi /\ [][NextApi]_vars

\* a step that answers a request of the route
Answers(route) == nreq' = nreq + 1 /\ resp'.route = route

\* C24: POST /frames/reload and DELETE /cache change state only when
\* X-Admin-Token equals the configured admin token and that token is not
\* empty; otherwise the answer is 401 and the frames and both caches are as
\* they were.
AdminRoutesNeedToken ==
    [][(/\ Answers("reload_frames") \/ Answers("clear_caches")
        /\ ~(resp'.token = admin_token /\ admin_token # ""))
       => /\ resp'.status = 401
          /\ db_frames' = db_frames
          /\ caches' = caches]_vars

\* a reload that asked to clear the frames, with an empty header against an
\* empty configured token, was refused while frames and cached keys exist
AdminRoutesNeedToken_Witness ==
    /\ resp # <<>>
    /\ resp.route = "reload_frames"
    /\ resp.status = 401
    /\ resp.token = ""
    /\ resp.clear_existing
    /\ admin_token = ""
    /\ DOMAIN db_frames = FrameDepths
    /\ caches.frame_cache # {}
    /\ caches.range_cache # {}

\* C25: GET /frames returns at most limit frames, in ascending order of depth,
\* with has_more true exactly when more than offset + limit frames match; a
\* client that pages by limit from offset 0 until has_more is false, over a
\* table that does not change meanwhile, has got every matching frame once.
PagingReturnsEveryFrameOnce ==
    [][(Answers("get_frames") /\ resp'.status = 200) =>
        LET r == resp'
            matching == Matching(db_frames, r.depth_min, r.depth_max)
            p == pager'
        IN /\ Len(r.frames) <= r.limit
           /\ \A i, j \in 1..Len(r.frames) : i < j => r.frames[i].depth < r.frames[j].depth
           /\ \A i \in 1..Len(r.frames) : r.frames[i].depth \in matching
           /\ r.has_more <=> (Cardinality(matching) > r.offset + r.limit)
           /\ (p # NoPager /\ p.done /\ p.stable) =>
                 LET all == Matching(db_frames, p.depth_min, p.depth_max)
                 IN /\ Len(p.got) = Cardinality(all)
                    /\ {p.got[i].depth : i \in 1..Len(p.got)} = all
                    /\ \A i \in 1..Len(p.got) : p.got[i].image_png = db_frames[p.got[i].depth]
      ]_vars

\* two pages of one frame each were enough for the two frames of the table
PagingReturnsEveryFrameOnce_Witness ==
    /\ pager # NoPager
    /\ pager.done
    /\ pager.stable
    /\ pager.limit = 1
    /\ pager.next = 2
    /\ Len(pager.got) = 2
    /\ resp.route = "get_frames"
    /\ resp.offset = 1
    /\ ~resp.has_more

\* C30: a POST /frames/reload that ends in an error response, 400 for a
\* missing CSV or 500 for an ingestion that raised, leaves the stored frames
\* as they were, also when clear_existing is true.
FailedReloadKeepsFrames ==
    [][(Answers("reload_frames") /\ resp'.status \in {400, 500})
       => db_frames' = db_frames]_vars
====
